---------------------------- MODULE Spec2Model ----------------------------
(***************************************************************************)
(* A model of the agentveil Python SDK:                                    *)
(*   sdk/langchain/vura_langchain.py  VuraCallbackHandler, VuraChatModel   *)
(*   sdk/python/privacyguard.py       activate / deactivate / is_active    *)
(*                                                                         *)
(* Python values that come out of resp.json() are modelled structurally   *)
(* (JNull, JBool, JNum, JStr, JList, JObj) and the Python expressions of   *)
(* the source are evaluated on them by the Py* operators, which return     *)
(* either a value or the exception Python raises there.                    *)
(***************************************************************************)
EXTENDS Integers, Sequences, FiniteSets, TLC

VARIABLES
  \* ---- VuraCallbackHandler and the call it wraps
  block_on_pii,   \* self.block_on_pii
  prompts,        \* the prompts handed to on_llm_start
  _findings,      \* self._findings
  phase,          \* where the interception is
  i,              \* on_llm_start: index of the next prompt of the loop
  j,              \* on_llm_end: index of the next generation text of the loops
  response,       \* the wrapped call's result, as on_llm_end sees it
  raised,         \* the exception that left a handler method, or "none"
  log,            \* the network requests and call events so far, in order
  lastOutcome,    \* what the last POST /scan met
  lastResult,     \* what _scan returned for it
  preFound,       \* some pre-call scan returned a result with found = true
  allFailed,      \* every scan so far met a transport failure or a non-200
  llmResult,      \* the result the wrapped call returned (never written again)
  got,            \* what the last get_findings() returned
  scanned,        \* the texts on_llm_start has passed to _scan, in order
  found_pre,      \* the entities the pre-call scans reported, in scan order
  \* ---- VuraChatModel._chat and VuraChatModel._stream
  mode,           \* "chat" (_chat) or "stream" (_stream)
  st,             \* where the call is
  status,         \* the status of the answer to POST /v1/chat/completions
  posts,          \* the POSTs issued by this call
  cexc,           \* the exception that left the call, or "none"
  body,           \* _chat: the body of the answer
  text,           \* _chat: the value returned
  lines,          \* _stream: the lines resp.iter_lines() delivers
  pos,            \* _stream: how many of them have been read
  out,            \* _stream: the fragments yielded so far
  conn            \* the connection of the answer: "none", "held" or "released"

cvars == << mode, st, status, posts, cexc, body, text, lines, pos, out, conn >>

VARIABLES
  \* ---- privacyguard: the Activation State
  _ACTIVE,        \* the module global _ACTIVE
  _CONFIG,        \* the module global _CONFIG
  os_environ,     \* os.environ of the process: OPENAI_BASE_URL, OPENAI_API_KEY
  lastCall        \* the last call made, its arguments and the call before it

avars == << _ACTIVE, _CONFIG, os_environ, lastCall >>

VARIABLES
  \* ---- VuraChatModel.__init__ and _build_headers
  args,           \* the arguments of the constructor
  environ,        \* os.environ as the constructor reads it
  self,           \* the attributes of the instance
  headers,        \* what _build_headers returned
  bst             \* "args", "constructed" or "built"

bvars == << args, environ, self, headers, bst >>

VARIABLES
  \* ---- activate / deactivate running on several threads
  threads         \* per thread: the call it makes, where it is, its locals

rvars == << threads >>

VARIABLES
  \* ---- VuraChatModel: the requests of invoke / chat / stream
  call,           \* the last call: its kind, its overrides, the call before it
  payload,        \* the JSON payload that call posts
  ncalls          \* the calls made on the client so far

pvars == << call, payload, ncalls >>

\* The handler's variables beside those the interception itself runs on
hextra == << got, scanned, found_pre >>

hvars == << block_on_pii, prompts, _findings, phase, i, j, response, raised,
            log, lastOutcome, lastResult, preFound, allFailed, llmResult,
            hextra >>

\* What the actions of one part leave alone
notH == << cvars, avars, bvars, rvars, pvars >>
notC == << hvars, avars, bvars, rvars, pvars >>
notA == << hvars, cvars, bvars, rvars, pvars >>
notB == << hvars, cvars, avars, rvars, pvars >>
notR == << hvars, cvars, bvars, pvars >>
notP == << hvars, cvars, avars, rvars >>

vars == << hvars, cvars, avars, bvars, rvars, pvars >>

-----------------------------------------------------------------------------
(* Bounds of the model *)

MaxPrompts == 2
MaxLines == 4
MaxSlashes == 2
NThreads == 2
MaxCalls == 2

-----------------------------------------------------------------------------
(* Python values and the Python operations the source applies to them *)

JNull == [k |-> "null"]
JBool(b) == [k |-> "bool", b |-> b]
JNum(n) == [k |-> "num", n |-> n]
JStr(s) == [k |-> "str", s |-> s]
JList(items) == [k |-> "list", items |-> items]
JObj(fields) == [k |-> "obj", fields |-> fields]

\* An exception travelling up the stack, as a value
Exc(name) == [k |-> "raise", exc |-> name]
IsExc(v) == v.k = "raise"

\* bool(v)
PyTruthy(v) ==
  CASE v.k = "null" -> FALSE
    [] v.k = "bool" -> v.b
    [] v.k = "num"  -> v.n # 0
    [] v.k = "str"  -> v.s # ""
    [] v.k = "list" -> v.items # << >>
    [] v.k = "obj"  -> DOMAIN v.fields # {}
    [] v.k = "chars" -> v.s # << >>

\* x or y
PyOr(x, y) == IF PyTruthy(x) THEN x ELSE y

\* _chat has returned nothing
NoText == [k |-> "no_text"]

\* An environment variable that is not set
Unset == [k |-> "unset"]

\* os.getenv(name, default), os.environ.get(name, default)
getenv(env, name, default) == IF env[name] = Unset THEN default ELSE env[name]

\* v.get(key, default): only a dict has .get
PyGet(v, key, default) ==
  IF v.k # "obj" THEN Exc("AttributeError")
  ELSE IF key \in DOMAIN v.fields THEN v.fields[key] ELSE default

\* v[key] for a string key
PyItem(v, key) ==
  CASE v.k = "obj" ->
         IF key \in DOMAIN v.fields THEN v.fields[key] ELSE Exc("KeyError")
    [] v.k \in {"list", "str"} -> Exc("TypeError")   \* indices must be integers
    [] OTHER -> Exc("TypeError")                     \* not subscriptable

\* v[0]
PyFirst(v) ==
  CASE v.k = "list" ->
         IF v.items # << >> THEN v.items[1] ELSE Exc("IndexError")
    [] v.k = "str" ->                                \* a one-character string
         IF v.s # "" THEN JStr("<char>") ELSE Exc("IndexError")
    [] v.k = "obj" -> Exc("KeyError")                \* no key 0 in a JSON object
    [] OTHER -> Exc("TypeError")

\* len(v) > 0
PyLenPositive(v) ==
  CASE v.k = "list" -> JBool(Len(v.items) > 0)
    [] v.k = "obj"  -> JBool(DOMAIN v.fields # {})
    [] v.k = "str"  -> JBool(v.s # "")
    [] OTHER -> Exc("TypeError")                     \* also an exception passed in

\* key in v.  The strings of the model hold a key only by being equal to it.
PyIn(key, v) ==
  CASE v.k = "obj"  -> JBool(key \in DOMAIN v.fields)
    [] v.k = "list" -> JBool(\E n \in 1..Len(v.items) : v.items[n] = JStr(key))
    [] v.k = "str"  -> JBool(v.s = key)
    [] OTHER -> Exc("TypeError")

\* the items list.extend(v) appends
PyIter(v) ==
  CASE v.k = "list" -> v
    [] v.k \in {"null", "bool", "num"} -> Exc("TypeError")

-----------------------------------------------------------------------------
(* VuraCallbackHandler *)

\* The bodies a 200 answer of POST /scan is drawn from
ScanBodies ==
  { JNull,
    JObj(<< >>),
    JList(<< JStr("e1") >>),
    JObj([found |-> JBool(FALSE), entities |-> JList(<< >>)]),
    JObj([entities |-> JList(<< JStr("e1") >>)]),
    JObj([found |-> JBool(TRUE), entities |-> JList(<< >>)]),
    JObj([found |-> JBool(TRUE), entities |-> JList(<< JStr("e1") >>)]),
    JObj([found |-> JBool(TRUE), entities |-> JList(<< JStr("e2"), JStr("e2") >>)]),
    JObj([found |-> JBool(TRUE)]),
    JObj([found |-> JBool(TRUE), entities |-> JNull]) }

\* A body that is not JSON
NotJson == [k |-> "invalid"]

ScanStatuses == {200, 204, 404, 500}

\* What requests.post(.../scan, timeout=10) can meet
ScanOutcomes ==
  { [net |-> "timeout"], [net |-> "connection_error"] }
    \cup { [net |-> "response", status |-> s, body |-> NotJson] : s \in ScanStatuses }
    \cup { [net |-> "response", status |-> 200, body |-> b] : b \in ScanBodies }

NoOutcome == [net |-> "none"]

ScanFailed(o) == o.net # "response" \/ o.status # 200

\* A variant of _scan without the try/except and with raise_for_status()
_scan_unguarded(o) ==
  IF o.net # "response" THEN Exc("RequestException")
  ELSE IF o.status # 200 THEN Exc("HTTPError")
  ELSE IF o.body = NotJson THEN Exc("JSONDecodeError")
  ELSE o.body

\* _scan: the value returned for what the POST met.  resp.json() on a body that
\* is not JSON raises requests.exceptions.JSONDecodeError, a RequestException
\* (requests 2.27 and later), which the except clause swallows.
_scan(o) ==
  IF o.net # "response" THEN JNull
  ELSE IF o.status = 200
       THEN (IF o.body = NotJson THEN JNull ELSE o.body)
       ELSE JNull

\* What one handler iteration does with a scan result:
\* the entities appended to _findings and the exception raised, if any.
Step(ext, exc) == [ext |-> ext, exc |-> exc]

\* result and result.get("found")
FoundTest(result) ==
  IF IsExc(result) THEN result
  ELSE IF ~PyTruthy(result) THEN JBool(FALSE)
  ELSE LET f == PyGet(result, "found", JNull)
       IN  IF IsExc(f) THEN f ELSE JBool(PyTruthy(f))

RECURSIVE Dedup(_)
Dedup(q) ==
  IF q = << >> THEN << >>
  ELSE LET rest == Dedup(SubSeq(q, 1, Len(q) - 1))
           last == q[Len(q)]
       IN  IF \E n \in 1..Len(rest) : rest[n] = last THEN rest ELSE Append(rest, last)

\* A variant of the argument of extend that drops repeated entities
ExtendArg_dedup(result) ==
  LET v == PyGet(result, "entities", JList(<< >>))
  IN  IF IsExc(v) \/ v.k # "list" THEN PyIter(v) ELSE JList(Dedup(v.items))

\* self._findings.extend(result.get("entities", []))
ExtendArg(result) == PyIter(PyGet(result, "entities", JList(<< >>)))

\* The body of the loop of on_llm_start
on_llm_start_iter(result, block) ==
  LET t == FoundTest(result)
  IN  IF IsExc(t) THEN Step(<< >>, t.exc)
      ELSE IF ~t.b THEN Step(<< >>, "none")
      ELSE LET e == ExtendArg(result)
           IN  IF IsExc(e) THEN Step(<< >>, e.exc)
               ELSE IF ~block THEN Step(e.items, "none")
               ELSE LET ent == PyItem(result, "entities")   \* result['entities']
                    IN  IF IsExc(ent) THEN Step(e.items, ent.exc)
                        ELSE IF IsExc(PyLenPositive(ent)) THEN Step(e.items, "TypeError")
                        ELSE Step(e.items, "PIIDetectedError")

\* The body of the loops of on_llm_end
on_llm_end_iter(result) ==
  LET t == FoundTest(result)
  IN  IF IsExc(t) THEN Step(<< >>, t.exc)
      ELSE IF ~t.b THEN Step(<< >>, "none")
      ELSE LET e == ExtendArg(result)
           IN  IF IsExc(e) THEN Step(<< >>, e.exc) ELSE Step(e.items, "none")

\* The results the wrapped call is drawn from: an object without the attribute
\* generations, or one with a list of lists of generations (their texts).
NoResponse == [has_generations |-> FALSE, generations |-> << >>]
Gens(g) == [has_generations |-> TRUE, generations |-> g]
Responses ==
  { NoResponse, Gens(<< >>), Gens(<< <<"t1">> >>), Gens(<< <<"t1", "t2">> >>),
    Gens(<< <<"t1">>, <<"t2">> >>), Gens(<< << >>, <<"t2">> >>) }

RECURSIVE Flatten(_)
Flatten(g) == IF g = << >> THEN << >> ELSE Head(g) \o Flatten(Tail(g))

\* The texts on_llm_end scans, in the order of its two loops
EndTexts(r) == IF r.has_generations THEN Flatten(r.generations) ELSE << >>

RECURSIVE SeqsUpTo(_, _)
SeqsUpTo(S, n) ==
  IF n = 0 THEN { << >> }
  ELSE LET shorter == SeqsUpTo(S, n - 1)
       IN  shorter \cup { Append(q, x) : q \in shorter, x \in S }

PromptTexts == {"p1", "p2"}

Running == {"BEFORE_CALL", "CALLING", "AFTER_CALL"}

HasFoundTrue(result) ==
  /\ result.k = "obj"
  /\ "found" \in DOMAIN result.fields
  /\ result.fields["found"] = JBool(TRUE)

\* The entities a scan result reports: those of a result with found = true
ScanEntities(result) ==
  IF /\ HasFoundTrue(result)
     /\ "entities" \in DOMAIN result.fields
     /\ result.fields["entities"].k = "list"
  THEN result.fields["entities"].items
  ELSE << >>

InitHandler ==
  /\ block_on_pii \in BOOLEAN
  /\ prompts \in SeqsUpTo(PromptTexts, MaxPrompts)
  /\ _findings = << >>
  /\ phase = "BEFORE_CALL"
  /\ i = 1
  /\ j = 1
  /\ response = NoResponse
  /\ raised = "none"
  /\ log = << >>
  /\ lastOutcome = NoOutcome
  /\ lastResult = JNull
  /\ preFound = FALSE
  /\ allFailed = TRUE
  /\ llmResult = NoResponse
  /\ got = << >>
  /\ scanned = << >>
  /\ found_pre = << >>
  \* VuraChatModel is not in use
  /\ mode = "none"
  /\ st = "idle"
  /\ status = 0
  /\ posts = 0
  /\ cexc = "none"
  /\ body = JNull
  /\ text = NoText
  /\ lines = << >>
  /\ pos = 0
  /\ out = << >>
  /\ conn = "none"
  \* privacyguard is not in use
  /\ _ACTIVE = FALSE
  /\ _CONFIG = << >>
  /\ os_environ = [OPENAI_BASE_URL |-> Unset, OPENAI_API_KEY |-> Unset]
  /\ lastCall = [op |-> "none"]
  \* no VuraChatModel is being constructed
  /\ args = << >>
  /\ environ = << >>
  /\ self = << >>
  /\ headers = << >>
  /\ bst = "idle"
  /\ threads = << >>
  /\ call = [kind |-> "none"]
  /\ payload = << >>
  /\ ncalls = 0

\* A variant that lets on_llm_start return with prompts still to scan
on_llm_start_returns_early(k, ps) == TRUE

\* A variant that lets on_llm_start return before it scans the last prompt
on_llm_start_returns_before_last(k, ps) == k >= Len(ps)

\* on_llm_start leaves its loop when no prompt is left
on_llm_start_returns(k, ps) == k > Len(ps)

\* One iteration of the loop of on_llm_start: POST /scan for prompts[i], then
\* the body of the loop.  An exception leaves the method: the call is refused.
\* The loop runs while a prompt is left; the interception is then still in
\* BEFORE_CALL, because StartReturn waits for on_llm_start_returns.
StartScan ==
  /\ phase \in Running
  /\ raised = "none"
  /\ i <= Len(prompts)
  /\ \E o \in ScanOutcomes :
       LET result == _scan(o)
           it == on_llm_start_iter(result, block_on_pii)
       IN  /\ lastOutcome' = o
           /\ lastResult' = result
           /\ log' = Append(log, "scan_pre")
           /\ _findings' = _findings \o it.ext
           /\ raised' = it.exc
           /\ preFound' = (preFound \/ (~IsExc(result) /\ HasFoundTrue(result)))
           /\ allFailed' = (allFailed /\ ScanFailed(o))
           /\ phase' = IF it.exc = "none" THEN phase
                        ELSE IF it.exc = "PIIDetectedError" THEN "BLOCKED"
                        ELSE "FAILED"
           /\ i' = i + 1
           /\ scanned' = Append(scanned, prompts[i])
           /\ found_pre' = found_pre \o ScanEntities(result)
  /\ UNCHANGED << block_on_pii, prompts, j, response, llmResult, got >>
  /\ UNCHANGED notH

\* on_llm_start returns and the wrapped call is issued
StartReturn ==
  /\ phase = "BEFORE_CALL"
  /\ raised = "none"
  /\ on_llm_start_returns(i, prompts)
  /\ phase' = "CALLING"
  /\ log' = Append(log, "call_issued")
  /\ UNCHANGED << block_on_pii, prompts, _findings, i, j, response, raised,
                  lastOutcome, lastResult, preFound, allFailed, llmResult, hextra >>
  /\ UNCHANGED notH

\* The wrapped call returns its result
CallReturn ==
  /\ phase = "CALLING"
  /\ \E r \in Responses :
       /\ response' = r
       /\ llmResult' = r
  /\ phase' = "AFTER_CALL"
  /\ log' = Append(log, "call_returned")
  /\ UNCHANGED << block_on_pii, prompts, _findings, i, j, raised,
                  lastOutcome, lastResult, preFound, allFailed, hextra >>
  /\ UNCHANGED notH

\* The wrapped call fails: on_llm_error(error), which does nothing
on_llm_error ==
  /\ phase = "CALLING"
  /\ phase' = "LLM_ERROR"
  /\ log' = Append(log, "call_failed")
  /\ UNCHANGED << block_on_pii, prompts, _findings, i, j, response, raised,
                  lastOutcome, lastResult, preFound, allFailed, llmResult, hextra >>
  /\ UNCHANGED notH

\* No method of the handler is running: the wrapped call is under way, or the
\* interception is over
BetweenCallbacks == phase \in {"CALLING", "DONE", "BLOCKED", "FAILED", "LLM_ERROR"}

\* get_findings(): returns self._findings
get_findings ==
  /\ BetweenCallbacks
  /\ got' = _findings
  /\ UNCHANGED << block_on_pii, prompts, _findings, phase, i, j, response, raised,
                  log, lastOutcome, lastResult, preFound, allFailed, llmResult,
                  scanned, found_pre >>
  /\ UNCHANGED notH

\* clear_findings(): self._findings = []
clear_findings ==
  /\ BetweenCallbacks
  /\ _findings' = << >>
  /\ UNCHANGED << block_on_pii, prompts, phase, i, j, response, raised,
                  log, lastOutcome, lastResult, preFound, allFailed, llmResult,
                  hextra >>
  /\ UNCHANGED notH

\* A variant of on_llm_end that redacts the generations once an entity is found
RedactAll(r) ==
  Gens([g \in DOMAIN r.generations |->
          [t \in DOMAIN r.generations[g] |-> "[REDACTED]"]])

EndScanRedact ==
  /\ phase = "AFTER_CALL"
  /\ raised = "none"
  /\ j <= Len(EndTexts(response))
  /\ \E o \in ScanOutcomes :
       LET result == _scan(o)
           it == on_llm_end_iter(result)
       IN  /\ lastOutcome' = o
           /\ lastResult' = result
           /\ log' = Append(log, "scan_post")
           /\ _findings' = _findings \o it.ext
           /\ raised' = it.exc
           /\ allFailed' = (allFailed /\ ScanFailed(o))
           /\ phase' = IF it.exc = "none" THEN phase ELSE "FAILED"
           /\ j' = j + 1
           /\ response' = IF it.ext # << >> THEN RedactAll(response) ELSE response
  /\ UNCHANGED << block_on_pii, prompts, i, preFound, llmResult, hextra >>
  /\ UNCHANGED notH

\* One iteration of the loops of on_llm_end: POST /scan for a generation's text
EndScan ==
  /\ phase = "AFTER_CALL"
  /\ raised = "none"
  /\ j <= Len(EndTexts(response))
  /\ \E o \in ScanOutcomes :
       LET result == _scan(o)
           it == on_llm_end_iter(result)
       IN  /\ lastOutcome' = o
           /\ lastResult' = result
           /\ log' = Append(log, "scan_post")
           /\ _findings' = _findings \o it.ext
           /\ raised' = it.exc
           /\ allFailed' = (allFailed /\ ScanFailed(o))
           /\ phase' = IF it.exc = "none" THEN phase ELSE "FAILED"
           /\ j' = j + 1
  /\ UNCHANGED << block_on_pii, prompts, i, response, preFound, llmResult, hextra >>
  /\ UNCHANGED notH

\* on_llm_end returns: the caller has the wrapped call's result
EndReturn ==
  /\ phase = "AFTER_CALL"
  /\ raised = "none"
  /\ j > Len(EndTexts(response))
  /\ phase' = "DONE"
  /\ UNCHANGED << block_on_pii, prompts, _findings, i, j, response, raised,
                  log, lastOutcome, lastResult, preFound, allFailed, llmResult,
                  hextra >>
  /\ UNCHANGED notH

NextHandler ==
  \/ StartScan
  \/ StartReturn
  \/ CallReturn
  \/ on_llm_error
  \/ get_findings
  \/ clear_findings
  \/ EndScan
  \/ EndReturn

SpecHandler == InitHandler /\ [][NextHandler]_vars

-----------------------------------------------------------------------------
(* VuraChatModel: _chat and _stream *)

\* The Python operations again, letting an exception met earlier pass through
PyItemE(v, key) == IF IsExc(v) THEN v ELSE PyItem(v, key)
PyFirstE(v) == IF IsExc(v) THEN v ELSE PyFirst(v)
PyGetE(v, key, default) == IF IsExc(v) THEN v ELSE PyGet(v, key, default)
PyInE(key, v) == IF IsExc(v) THEN v ELSE PyIn(key, v)

\* The statuses POST /v1/chat/completions is answered with.  requests follows
\* a 3xx that carries a Location; 300 stands for one that does not.
ChatStatuses == {200, 300, 404, 503}

\* A variant of raise_for_status that lets client errors pass
raise_for_status_5xx(s) == 500 <= s /\ s < 600

\* resp.raise_for_status() raises HTTPError for 4xx and 5xx
raise_for_status(s) == 400 <= s /\ s < 600

Msg(c) == JObj([message |-> JObj([content |-> JStr(c)])])

\* The bodies of a blocking answer
ChatBodies ==
  { NotJson,
    JObj([choices |-> JList(<< Msg("hello") >>)]),
    JObj([choices |-> JList(<< Msg("hello"), Msg("other") >>)]),
    JObj([choices |-> JList(<< >>)]),
    JObj(<< >>),
    JList(<< >>),
    JNull,
    JObj([choices |-> JList(<< JObj(<< >>) >>)]),
    JObj([choices |-> JList(<< JObj([message |-> JObj(<< >>)]) >>)]),
    JObj([choices |-> JList(<< JObj([message |-> JNull]) >>)]),
    JObj([choices |-> JNull]) }

\* resp.json()
resp_json(b) == IF b = NotJson THEN Exc("JSONDecodeError") ELSE b

\* _chat, lines 151-155: the text returned for the parsed body, or the exception
\*   if "choices" in data and len(data["choices"]) > 0:
\*       return data["choices"][0]["message"]["content"]
\*   return ""
_chat_decode(b) ==
  LET data == resp_json(b)
      has == PyInE("choices", data)
  IN  IF IsExc(has) THEN has
      ELSE IF ~has.b THEN JStr("")
      ELSE LET choices == PyItem(data, "choices")
               some == IF IsExc(choices) THEN choices ELSE PyLenPositive(choices)
           IN  IF IsExc(some) THEN some
               ELSE IF ~some.b THEN JStr("")
               ELSE PyItemE(PyItemE(PyFirst(choices), "message"), "content")

\* ---- the lines of a streamed body
\* A line is the text before its payload (pre), whether white space surrounds
\* the payload (pad), and the payload: the text [DONE], a JSON text (given by
\* the value it parses to), a text that is not JSON, or nothing.
Line(pre, pad, load) == [pre |-> pre, pad |-> pad, payload |-> load]
PDone == [k |-> "sentinel"]
PJunk == [k |-> "junk"]
PEmpty == [k |-> "empty"]
PJson(v) == [k |-> "json", v |-> v]

Delta(fields) == JObj([choices |-> JList(<< JObj([delta |-> fields]) >>)])

FrameA == Line("data: ", FALSE, PJson(Delta(JObj([content |-> JStr("a")]))))
FrameB == Line("data: ", TRUE, PJson(Delta(JObj([content |-> JStr("b")]))))
FrameRole == Line("data: ", FALSE, PJson(Delta(JObj([role |-> JStr("assistant")]))))
FrameDeltaNull == Line("data: ", FALSE, PJson(Delta(JNull)))
FrameNull == Line("data: ", FALSE, PJson(JNull))
FrameChoiceNum == Line("data: ", FALSE, PJson(JObj([choices |-> JList(<< JNum(1) >>)])))
DoneLine == Line("data: ", FALSE, PDone)
DonePadded == Line("data: ", TRUE, PDone)
DoneNoSpace == Line("data:", FALSE, PDone)
BlankLine == Line("", FALSE, PEmpty)
JunkFrame == Line("data: ", FALSE, PJunk)

StreamLines ==
  { FrameA, FrameB, FrameRole, FrameDeltaNull, FrameNull, FrameChoiceNum,
    DoneLine, DonePadded, DoneNoSpace, BlankLine, JunkFrame }

\* line and line.startswith("data: ")
Significant(l) == l # BlankLine /\ l.pre = "data: "

\* line[6:].strip()
StripPayload(l) == l.payload

\* json.loads(data)
json_loads(p) == IF p.k = "json" THEN p.v ELSE Exc("JSONDecodeError")

\* What processing one line does
Skip == [act |-> "skip"]
Yield(v) == [act |-> "yield", v |-> v]
Return == [act |-> "return"]
Raise(e) == [act |-> "raise", exc |-> e]

\* _stream, lines 184-187, on a parsed chunk
\*   if "choices" in chunk and len(chunk["choices"]) > 0:
\*       delta = chunk["choices"][0].get("delta", {})
\*       if "content" in delta:
\*           yield delta["content"]
_stream_chunk(chunk) ==
  LET has == PyIn("choices", chunk)
  IN  IF IsExc(has) THEN Raise(has.exc)
      ELSE IF ~has.b THEN Skip
      ELSE LET choices == PyItem(chunk, "choices")
               some == IF IsExc(choices) THEN choices ELSE PyLenPositive(choices)
           IN  IF IsExc(some) THEN Raise(some.exc)
               ELSE IF ~some.b THEN Skip
               ELSE LET delta == PyGetE(PyFirst(choices), "delta", JObj(<< >>))
                        carries == PyInE("content", delta)
                    IN  IF IsExc(carries) THEN Raise(carries.exc)
                        ELSE IF ~carries.b THEN Skip
                        ELSE LET c == PyItem(delta, "content")
                             IN  IF IsExc(c) THEN Raise(c.exc) ELSE Yield(c)

\* A variant of the loop body that lets the JSONDecodeError out
_stream_line_strict(l) ==
  IF ~Significant(l) THEN Skip
  ELSE LET data == StripPayload(l)
       IN  IF data = PDone THEN Return
           ELSE LET chunk == json_loads(data)
                IN  IF IsExc(chunk) THEN Raise(chunk.exc) ELSE _stream_chunk(chunk)

\* _stream, lines 178-189: the body of the loop over resp.iter_lines()
_stream_line(l) ==
  IF ~Significant(l) THEN Skip
  ELSE LET data == StripPayload(l)
       IN  IF data = PDone THEN Return
           ELSE LET chunk == json_loads(data)
                IN  IF IsExc(chunk) THEN Skip ELSE _stream_chunk(chunk)

InitChat ==
  /\ mode \in {"chat", "stream"}
  /\ st = "created"
  /\ status = 0
  /\ posts = 0
  /\ cexc = "none"
  /\ body = JNull
  /\ text = NoText
  /\ lines = << >>
  /\ pos = 0
  /\ out = << >>
  /\ conn = "none"
  \* VuraCallbackHandler is not in use
  /\ block_on_pii = FALSE
  /\ prompts = << >>
  /\ _findings = << >>
  /\ phase = "idle"
  /\ i = 1
  /\ j = 1
  /\ response = [has_generations |-> FALSE, generations |-> << >>]
  /\ raised = "none"
  /\ log = << >>
  /\ lastOutcome = [net |-> "none"]
  /\ lastResult = JNull
  /\ preFound = FALSE
  /\ allFailed = TRUE
  /\ llmResult = [has_generations |-> FALSE, generations |-> << >>]
  /\ got = << >>
  /\ scanned = << >>
  /\ found_pre = << >>
  \* privacyguard is not in use
  /\ _ACTIVE = FALSE
  /\ _CONFIG = << >>
  /\ os_environ = [OPENAI_BASE_URL |-> Unset, OPENAI_API_KEY |-> Unset]
  /\ lastCall = [op |-> "none"]
  \* no VuraChatModel is being constructed
  /\ args = << >>
  /\ environ = << >>
  /\ self = << >>
  /\ headers = << >>
  /\ bst = "idle"
  /\ threads = << >>
  /\ call = [kind |-> "none"]
  /\ payload = << >>
  /\ ncalls = 0

\* What becomes of the connection of a streamed answer that nothing closes,
\* once the frame holding resp is gone: _stream has no with block, no finally
\* and no resp.close(), so the connection stays held until the interpreter
\* finalizes the unreachable response, which it may do at once, later or never.
Dropped == {"held", "released"}

\* requests.post(...) fails: no answer, the exception leaves the call
PostFails ==
  /\ mode \in {"chat", "stream"}
  /\ st = "created"
  /\ posts' = posts + 1
  /\ st' = "raised"
  /\ cexc' \in {"ConnectionError", "Timeout"}
  /\ UNCHANGED << mode, status, body, text, lines, pos, out, conn >>
  /\ UNCHANGED notC

\* _chat: the POST is answered; raise_for_status, then the decoding
ChatPost ==
  /\ mode = "chat"
  /\ st = "created"
  /\ posts' = posts + 1
  /\ \E s \in ChatStatuses, b \in ChatBodies :
       /\ status' = s
       /\ body' = b
       /\ IF raise_for_status(s)
          THEN /\ st' = "raised"
               /\ cexc' = "HTTPError"
               /\ text' = text
          ELSE LET r == _chat_decode(b)
               IN  IF IsExc(r)
                   THEN st' = "raised" /\ cexc' = r.exc /\ text' = text
                   ELSE st' = "returned" /\ cexc' = cexc /\ text' = r
  \* without stream=True the body is read before post() returns
  /\ conn' = "released"
  /\ UNCHANGED << mode, lines, pos, out >>
  /\ UNCHANGED notC

\* _stream, run by the first next(): the POST is answered; raise_for_status
StreamPost ==
  /\ mode = "stream"
  /\ st = "created"
  /\ posts' = posts + 1
  /\ \E s \in ChatStatuses :
       /\ status' = s
       /\ IF raise_for_status(s)
          THEN /\ st' = "raised" /\ cexc' = "HTTPError" /\ lines' = lines
               /\ conn' \in Dropped
          ELSE /\ st' = "streaming"
               /\ cexc' = cexc
               /\ lines' \in SeqsUpTo(StreamLines, MaxLines)
               /\ conn' = "held"
  /\ UNCHANGED << mode, body, text, pos, out >>
  /\ UNCHANGED notC

\* _stream: one more line of resp.iter_lines() goes through the loop body
StreamLine ==
  /\ st = "streaming"
  /\ pos < Len(lines)
  /\ pos' = pos + 1
  /\ LET d == _stream_line(lines[pos + 1])
     IN  /\ out' = IF d.act = "yield" THEN Append(out, d.v) ELSE out
         /\ st' = CASE d.act = "return" -> "done"
                    [] d.act = "raise" -> "raised"
                    [] OTHER -> st
         /\ cexc' = IF d.act = "raise" THEN d.exc ELSE cexc
         /\ IF d.act \in {"return", "raise"}
            THEN conn' \in Dropped
            ELSE conn' = conn
  /\ UNCHANGED << mode, status, posts, body, text, lines >>
  /\ UNCHANGED notC

\* _stream: resp.iter_lines() is exhausted, the generator ends.  The body has
\* been read to its end, at which the connection goes back to the pool.
StreamExhausted ==
  /\ st = "streaming"
  /\ pos = Len(lines)
  /\ st' = "exhausted"
  /\ conn' = "released"
  /\ UNCHANGED << mode, status, posts, cexc, body, text, lines, pos, out >>
  /\ UNCHANGED notC

\* _stream is suspended at its yield (line 187)
AtYield ==
  /\ st = "streaming"
  /\ pos > 0
  /\ _stream_line(lines[pos]).act = "yield"

\* The consumer abandons the sequence: it closes or drops the generator while
\* that is suspended at its yield; no statement of _stream runs any more.
Abandon ==
  /\ AtYield
  /\ st' = "abandoned"
  /\ conn' \in Dropped
  /\ UNCHANGED << mode, status, posts, cexc, body, text, lines, pos, out >>
  /\ UNCHANGED notC

NextChat ==
  \/ PostFails
  \/ ChatPost
  \/ StreamPost
  \/ StreamLine
  \/ StreamExhausted
  \/ Abandon

SpecChat == InitChat /\ [][NextChat]_vars

-----------------------------------------------------------------------------
(* The audit operations: VuraAuditor.audit, VuraAuditor.audit_file and
   privacyguard.audit_skill *)

AuditModes == {"audit", "audit_file", "audit_skill"}

\* The statuses POST /audit is answered with
AuditStatuses == {200, 201, 300, 404, 500}

Report(label, score) ==
  JObj([risk_level_label |-> JStr(label), compliance_score |-> JNum(score),
        findings |-> JList(<< >>)])

\* The bodies of an answer of POST /audit: reports, error documents, other JSON
AuditBodies ==
  { NotJson,
    Report("low", 90),
    Report("high", 10),
    JObj([error |-> JStr("bad request")]),
    JObj([detail |-> JStr("server error")]),
    JObj(<< >>),
    JList(<< >>),
    JNull }

InitAudit ==
  /\ mode \in AuditModes
  /\ st = "created"
  /\ status = 0
  /\ posts = 0
  /\ cexc = "none"
  /\ body = JNull
  /\ text = NoText
  /\ lines = << >>
  /\ pos = 0
  /\ out = << >>
  /\ conn = "none"
  \* VuraCallbackHandler is not in use
  /\ block_on_pii = FALSE
  /\ prompts = << >>
  /\ _findings = << >>
  /\ phase = "idle"
  /\ i = 1
  /\ j = 1
  /\ response = [has_generations |-> FALSE, generations |-> << >>]
  /\ raised = "none"
  /\ log = << >>
  /\ lastOutcome = [net |-> "none"]
  /\ lastResult = JNull
  /\ preFound = FALSE
  /\ allFailed = TRUE
  /\ llmResult = [has_generations |-> FALSE, generations |-> << >>]
  /\ got = << >>
  /\ scanned = << >>
  /\ found_pre = << >>
  \* privacyguard is not in use
  /\ _ACTIVE = FALSE
  /\ _CONFIG = << >>
  /\ os_environ = [OPENAI_BASE_URL |-> Unset, OPENAI_API_KEY |-> Unset]
  /\ lastCall = [op |-> "none"]
  \* no VuraChatModel is being constructed or called
  /\ args = << >>
  /\ environ = << >>
  /\ self = << >>
  /\ headers = << >>
  /\ bst = "idle"
  /\ threads = << >>
  /\ call = [kind |-> "none"]
  /\ payload = << >>
  /\ ncalls = 0

\* audit_file, lines 237-238: the file is read, or open() raises
audit_file_read ==
  /\ mode = "audit_file"
  /\ st = "created"
  /\ \/ st' = "read" /\ cexc' = cexc
     \/ st' = "raised" /\ cexc' \in {"FileNotFoundError", "PermissionError"}
  /\ UNCHANGED << mode, status, posts, body, text, lines, pos, out, conn >>
  /\ UNCHANGED notC

\* The call has come to its requests.post
AtAuditPost ==
  \/ mode \in {"audit", "audit_skill"} /\ st = "created"
  \/ mode = "audit_file" /\ st = "read"

\* requests.post(.../audit) fails: no answer, the exception leaves the call
AuditPostFails ==
  /\ AtAuditPost
  /\ posts' = posts + 1
  /\ st' = "raised"
  /\ cexc' \in {"ConnectionError", "Timeout"}
  /\ UNCHANGED << mode, status, body, text, lines, pos, out, conn >>
  /\ UNCHANGED notC

\* VuraAuditor.audit, lines 226-233 (audit_file delegates to it, line 239):
\* the POST is answered; raise_for_status(), then return resp.json()
audit ==
  /\ mode \in {"audit", "audit_file"}
  /\ AtAuditPost
  /\ posts' = posts + 1
  /\ \E s \in AuditStatuses, b \in AuditBodies :
       /\ status' = s
       /\ body' = b
       /\ IF raise_for_status(s)
          THEN st' = "raised" /\ cexc' = "HTTPError" /\ text' = text
          ELSE LET r == resp_json(b)
               IN  IF IsExc(r)
                   THEN st' = "raised" /\ cexc' = r.exc /\ text' = text
                   ELSE st' = "returned" /\ cexc' = cexc /\ text' = r
  /\ conn' = "released"
  /\ UNCHANGED << mode, lines, pos, out >>
  /\ UNCHANGED notC

\* privacyguard.audit_skill, lines 88-92: the POST is answered;
\* return resp.json(), the status is not looked at
audit_skill ==
  /\ mode = "audit_skill"
  /\ AtAuditPost
  /\ posts' = posts + 1
  /\ \E s \in AuditStatuses, b \in AuditBodies :
       /\ status' = s
       /\ body' = b
       /\ LET r == resp_json(b)
          IN  IF IsExc(r)
              THEN st' = "raised" /\ cexc' = r.exc /\ text' = text
              ELSE st' = "returned" /\ cexc' = cexc /\ text' = r
  /\ conn' = "released"
  /\ UNCHANGED << mode, lines, pos, out >>
  /\ UNCHANGED notC

NextAudit ==
  \/ audit_file_read
  \/ AuditPostFails
  \/ audit
  \/ audit_skill

SpecAudit == InitAudit /\ [][NextAudit]_vars

-----------------------------------------------------------------------------
(* privacyguard: activate, deactivate, is_active *)

\* A string whose characters matter (a proxy url), as the sequence of them
Chars(q) == [k |-> "chars", s |-> q]

\* The proxy urls of the model: nothing, "h" or "h/h", then trailing slashes
Slashes(n) == [m \in 1..n |-> "/"]
ProxyUrls ==
  { stem \o Slashes(n) : stem \in { << >>, << "h" >>, << "h", "/", "h" >> },
                          n \in 0..MaxSlashes }
V1 == << "/", "v", "1" >>

\* A variant of rstrip that drops one trailing slash only
rstrip_once(q) ==
  IF q # << >> /\ q[Len(q)] = "/" THEN SubSeq(q, 1, Len(q) - 1) ELSE q

\* proxy_url.rstrip("/")
RECURSIVE rstrip(_)
rstrip(q) ==
  IF q # << >> /\ q[Len(q)] = "/" THEN rstrip(SubSeq(q, 1, Len(q) - 1)) ELSE q

\* str(uuid.uuid4()): some non-empty string
Uuids == { JStr("uuid-1"), JStr("uuid-2") }

ApiKeyArgs == { JNull, JStr("sk-arg") }
ApiKeyEnvs == { Unset, JStr(""), JStr("sk-env") }
SessionArgs == { JNull, JStr(""), JStr("session-abc") }
Roles == { JStr("admin"), JStr("viewer") }
BaseUrlEnvs == { Unset, Chars(<< "h" >>) }

InitActivation ==
  /\ _ACTIVE = FALSE
  /\ _CONFIG = << >>
  /\ os_environ \in [OPENAI_BASE_URL : BaseUrlEnvs, OPENAI_API_KEY : ApiKeyEnvs]
  /\ lastCall = [op |-> "none"]
  \* VuraChatModel is not in use
  /\ mode = "none"
  /\ st = "idle"
  /\ status = 0
  /\ posts = 0
  /\ cexc = "none"
  /\ body = JNull
  /\ text = NoText
  /\ lines = << >>
  /\ pos = 0
  /\ out = << >>
  /\ conn = "none"
  \* VuraCallbackHandler is not in use
  /\ block_on_pii = FALSE
  /\ prompts = << >>
  /\ _findings = << >>
  /\ phase = "idle"
  /\ i = 1
  /\ j = 1
  /\ response = [has_generations |-> FALSE, generations |-> << >>]
  /\ raised = "none"
  /\ log = << >>
  /\ lastOutcome = [net |-> "none"]
  /\ lastResult = JNull
  /\ preFound = FALSE
  /\ allFailed = TRUE
  /\ llmResult = [has_generations |-> FALSE, generations |-> << >>]
  /\ got = << >>
  /\ scanned = << >>
  /\ found_pre = << >>
  \* no VuraChatModel is being constructed
  /\ args = << >>
  /\ environ = << >>
  /\ self = << >>
  /\ headers = << >>
  /\ bst = "idle"
  /\ threads = << >>
  /\ call = [kind |-> "none"]
  /\ payload = << >>
  /\ ncalls = 0

\* The endpoint a config routes to, or none when nothing is configured
Endpoint(config) == IF config = << >> THEN << >> ELSE config.proxy_url

\* The ambient endpoint and the Activation State as a call finds them (of the
\* config, the endpoint)
Snapshot ==
  [base_url |-> os_environ["OPENAI_BASE_URL"], active |-> _ACTIVE,
   endpoint |-> Endpoint(_CONFIG)]

\* activate(proxy_url, api_key, role, session_id)
activate ==
  \E u \in ProxyUrls, key \in ApiKeyArgs, r \in Roles, sid \in SessionArgs,
        uuid \in Uuids :
       LET config == [proxy_url |-> Chars(rstrip(u)),
                      api_key |-> PyOr(key, getenv(os_environ, "OPENAI_API_KEY", JStr(""))),
                      role |-> r,
                      session_id |-> PyOr(sid, uuid)]
       IN  /\ _CONFIG' = config
           /\ _ACTIVE' = TRUE
           /\ os_environ' = [os_environ EXCEPT
                               !["OPENAI_BASE_URL"] = Chars(config.proxy_url.s \o V1)]
           /\ lastCall' = [op |-> "activate", proxy_url |-> u, api_key |-> key,
                           role |-> r, session_id |-> sid, prev |-> lastCall.op,
                           before |-> Snapshot]
  /\ UNCHANGED notA

\* A variant of deactivate that also forgets the configuration
deactivate_clears_config ==
  /\ _ACTIVE' = FALSE
  /\ _CONFIG' = << >>
  /\ os_environ' = [os_environ EXCEPT !["OPENAI_BASE_URL"] = Unset]
  /\ lastCall' = [op |-> "deactivate", prev |-> lastCall.op, found |-> _CONFIG,
                  before |-> IF lastCall.op = "activate" THEN lastCall.before
                             ELSE Snapshot]
  /\ UNCHANGED notA

\* deactivate().  The call records the config it found and, when it follows an
\* activate, the state that activate had found.
deactivate ==
  /\ _ACTIVE' = FALSE
  /\ os_environ' = [os_environ EXCEPT !["OPENAI_BASE_URL"] = Unset]
  /\ lastCall' = [op |-> "deactivate", prev |-> lastCall.op, found |-> _CONFIG,
                  before |-> IF lastCall.op = "activate" THEN lastCall.before
                             ELSE Snapshot]
  /\ UNCHANGED _CONFIG
  /\ UNCHANGED notA

\* is_active()
is_active == _ACTIVE

NextActivation ==
  \/ activate
  \/ deactivate

SpecActivation == InitActivation /\ [][NextActivation]_vars

-----------------------------------------------------------------------------
(* privacyguard: activate and deactivate called from several threads.  The
   threads share _ACTIVE, _CONFIG and os.environ without a lock; a thread can
   be preempted between any two statements, and inside line 49 between the
   read of _CONFIG and the store into os.environ. *)

Threads == 1..NThreads

\* The proxy urls the racing calls pass: two different endpoints
RaceUrls == { << "h", "/" >>, << "h", "/", "h" >> }

\* The calls a thread makes: activate(proxy_url=u, session_id="session-abc")
\* or deactivate()
RaceCalls ==
  { [op |-> "activate", proxy_url |-> u] : u \in RaceUrls } \cup { [op |-> "deactivate"] }

\* The line a call starts at
FirstLine(c) == IF c.op = "activate" THEN 40 ELSE 57
Returned == 0

\* The dict of lines 40-45 for such a call
ConfigOf(c, env) ==
  [proxy_url |-> Chars(rstrip(c.proxy_url)),
   api_key |-> PyOr(JNull, getenv(env, "OPENAI_API_KEY", JStr(""))),
   role |-> JStr("admin"),
   session_id |-> PyOr(JStr("session-abc"), JStr("uuid-1"))]

InitRace ==
  /\ threads \in [Threads -> { [call |-> c, pc |-> FirstLine(c), url |-> << >>] :
                               c \in RaceCalls }]
  /\ _ACTIVE = FALSE
  /\ _CONFIG = << >>
  /\ os_environ \in [OPENAI_BASE_URL : BaseUrlEnvs, OPENAI_API_KEY : {Unset}]
  /\ lastCall = [op |-> "none"]
  \* VuraChatModel is not in use
  /\ mode = "none"
  /\ st = "idle"
  /\ status = 0
  /\ posts = 0
  /\ cexc = "none"
  /\ body = JNull
  /\ text = NoText
  /\ lines = << >>
  /\ pos = 0
  /\ out = << >>
  /\ conn = "none"
  \* VuraCallbackHandler is not in use
  /\ block_on_pii = FALSE
  /\ prompts = << >>
  /\ _findings = << >>
  /\ phase = "idle"
  /\ i = 1
  /\ j = 1
  /\ response = [has_generations |-> FALSE, generations |-> << >>]
  /\ raised = "none"
  /\ log = << >>
  /\ lastOutcome = [net |-> "none"]
  /\ lastResult = JNull
  /\ preFound = FALSE
  /\ allFailed = TRUE
  /\ llmResult = [has_generations |-> FALSE, generations |-> << >>]
  /\ got = << >>
  /\ scanned = << >>
  /\ found_pre = << >>
  \* no VuraChatModel is being constructed or called
  /\ args = << >>
  /\ environ = << >>
  /\ self = << >>
  /\ headers = << >>
  /\ bst = "idle"
  /\ call = [kind |-> "none"]
  /\ payload = << >>
  /\ ncalls = 0

Goto(t, line) == [threads EXCEPT ![t].pc = line]

\* activate, lines 40-45: _CONFIG = {...}
activate_40 ==
  \E t \in Threads :
    /\ threads[t].pc = 40
    /\ _CONFIG' = ConfigOf(threads[t].call, os_environ)
    /\ threads' = Goto(t, 46)
    /\ UNCHANGED << _ACTIVE, os_environ, lastCall >>
    /\ UNCHANGED notR

\* activate, line 46: _ACTIVE = True
activate_46 ==
  \E t \in Threads :
    /\ threads[t].pc = 46
    /\ _ACTIVE' = TRUE
    /\ threads' = Goto(t, 49)
    /\ UNCHANGED << _CONFIG, os_environ, lastCall >>
    /\ UNCHANGED notR

\* activate, line 49, the right-hand side: f"{_CONFIG['proxy_url']}/v1" reads
\* the global _CONFIG, whichever thread stored it last
activate_49_read ==
  \E t \in Threads :
    /\ threads[t].pc = 49
    /\ threads' = [threads EXCEPT ![t].pc = 50, ![t].url = _CONFIG.proxy_url.s \o V1]
    /\ UNCHANGED << _ACTIVE, _CONFIG, os_environ, lastCall >>
    /\ UNCHANGED notR

\* activate, line 49, the store: os.environ["OPENAI_BASE_URL"] = ...; line 51
activate_49_write ==
  \E t \in Threads :
    /\ threads[t].pc = 50
    /\ os_environ' = [os_environ EXCEPT !["OPENAI_BASE_URL"] = Chars(threads[t].url)]
    /\ threads' = Goto(t, Returned)
    /\ UNCHANGED << _ACTIVE, _CONFIG, lastCall >>
    /\ UNCHANGED notR

\* deactivate, line 57: _ACTIVE = False
deactivate_57 ==
  \E t \in Threads :
    /\ threads[t].pc = 57
    /\ _ACTIVE' = FALSE
    /\ threads' = Goto(t, 58)
    /\ UNCHANGED << _CONFIG, os_environ, lastCall >>
    /\ UNCHANGED notR

\* A variant of line 58 that leaves the variable alone
deactivate_58_keeps(env) == env

\* deactivate, line 58: os.environ.pop("OPENAI_BASE_URL", None)
deactivate_58_pop(env) == [env EXCEPT !["OPENAI_BASE_URL"] = Unset]

deactivate_58 ==
  \E t \in Threads :
    /\ threads[t].pc = 58
    /\ os_environ' = deactivate_58_pop(os_environ)
    /\ threads' = Goto(t, Returned)
    /\ UNCHANGED << _ACTIVE, _CONFIG, lastCall >>
    /\ UNCHANGED notR

NextRace ==
  \/ activate_40
  \/ activate_46
  \/ activate_49_read
  \/ activate_49_write
  \/ deactivate_57
  \/ deactivate_58

SpecRace == InitRace /\ [][NextRace]_vars

-----------------------------------------------------------------------------
(* VuraChatModel: __init__ and _build_headers *)

ProviderArgs == { JNull, JStr(""), JStr("openai") }
ProviderKeyArgs == { JNull, JStr(""), JStr("sk-provider") }
ProxyKeyArgs == { JNull, JStr(""), JStr("vura-key") }
RoleArgs == { JStr(""), JStr("admin") }
SessionEnvs == { Unset, JStr(""), JStr("env-session") }

InitHeaders ==
  /\ args \in [api_key : ProxyKeyArgs, provider_api_key : ProviderKeyArgs,
               provider : ProviderArgs, session_id : SessionArgs, role : RoleArgs]
  /\ environ \in [VURA_API_KEY : { Unset, JStr(""), JStr("vura-env") },
                  OPENAI_API_KEY : ApiKeyEnvs,
                  VURA_SESSION_ID : SessionEnvs]
  /\ self = << >>
  /\ headers = << >>
  /\ bst = "args"
  /\ threads = << >>
  /\ call = [kind |-> "none"]
  /\ payload = << >>
  /\ ncalls = 0
  \* VuraChatModel is not in use
  /\ mode = "none"
  /\ st = "idle"
  /\ status = 0
  /\ posts = 0
  /\ cexc = "none"
  /\ body = JNull
  /\ text = NoText
  /\ lines = << >>
  /\ pos = 0
  /\ out = << >>
  /\ conn = "none"
  \* VuraCallbackHandler is not in use
  /\ block_on_pii = FALSE
  /\ prompts = << >>
  /\ _findings = << >>
  /\ phase = "idle"
  /\ i = 1
  /\ j = 1
  /\ response = [has_generations |-> FALSE, generations |-> << >>]
  /\ raised = "none"
  /\ log = << >>
  /\ lastOutcome = [net |-> "none"]
  /\ lastResult = JNull
  /\ preFound = FALSE
  /\ allFailed = TRUE
  /\ llmResult = [has_generations |-> FALSE, generations |-> << >>]
  /\ got = << >>
  /\ scanned = << >>
  /\ found_pre = << >>
  \* privacyguard is not in use
  /\ _ACTIVE = FALSE
  /\ _CONFIG = << >>
  /\ os_environ = [OPENAI_BASE_URL |-> Unset, OPENAI_API_KEY |-> Unset]
  /\ lastCall = [op |-> "none"]

\* VuraChatModel.__init__, the attributes the headers are built from
Construct ==
  /\ bst = "args"
  /\ self' = [api_key |-> PyOr(args.api_key, getenv(environ, "VURA_API_KEY", JStr(""))),
              provider_api_key |->
                PyOr(args.provider_api_key, getenv(environ, "OPENAI_API_KEY", JStr(""))),
              provider |-> args.provider,
              session_id |->
                PyOr(args.session_id, getenv(environ, "VURA_SESSION_ID", JStr("langchain"))),
              role |-> args.role]
  /\ bst' = "constructed"
  /\ UNCHANGED << args, environ, headers >>
  /\ UNCHANGED notB

\* f"Bearer {key}"
Bearer(key) == JStr(<< "Bearer ", key.s >>)

\* d[name] = value
Put(d, name, value) == (name :> value) @@ d

\* VuraCallbackHandler.__init__ on the same arguments and environment: the
\* attributes _scan builds its headers from
ConstructHandler ==
  /\ bst = "args"
  /\ self' = [api_key |-> PyOr(args.api_key, getenv(environ, "VURA_API_KEY", JStr(""))),
              session_id |->
                PyOr(args.session_id, getenv(environ, "VURA_SESSION_ID", JStr("langchain")))]
  /\ bst' = "handler"
  /\ UNCHANGED << args, environ, headers >>
  /\ UNCHANGED notB

\* privacyguard.create_session(api_key, role, session_id): the headers it sets
\* on the session it returns
create_session ==
  /\ bst = "args"
  /\ \E uuid \in Uuids :
       LET sid == PyOr(args.session_id, uuid)
           h0 == ("X-Session-ID" :> sid) @@ ("X-User-Role" :> args.role)
       IN  headers' = IF PyTruthy(args.api_key)
                      THEN Put(h0, "Authorization", Bearer(args.api_key))
                      ELSE h0
  /\ bst' = "session"
  /\ UNCHANGED << args, environ, self >>
  /\ UNCHANGED notB

\* A variant of _build_headers that prefers the provider key
_build_headers_provider_first(o) ==
  LET h0 == ("Content-Type" :> JStr("application/json"))
      h1 == IF PyTruthy(o.provider_api_key)
            THEN Put(h0, "Authorization", Bearer(o.provider_api_key))
            ELSE IF PyTruthy(o.api_key)
                 THEN Put(h0, "Authorization", Bearer(o.api_key))
                 ELSE h0
      h2 == IF PyTruthy(o.session_id) THEN Put(h1, "X-Session-ID", o.session_id) ELSE h1
      h3 == IF PyTruthy(o.role) THEN Put(h2, "X-User-Role", o.role) ELSE h2
      h4 == IF PyTruthy(o.provider) THEN Put(h3, "X-Vura-Provider", o.provider) ELSE h3
  IN  h4

\* VuraChatModel._build_headers
_build_headers(o) ==
  LET h0 == ("Content-Type" :> JStr("application/json"))
      h1 == IF PyTruthy(o.api_key)
            THEN Put(h0, "Authorization", Bearer(o.api_key))
            ELSE IF PyTruthy(o.provider_api_key)
                 THEN Put(h0, "Authorization", Bearer(o.provider_api_key))
                 ELSE h0
      h2 == IF PyTruthy(o.session_id) THEN Put(h1, "X-Session-ID", o.session_id) ELSE h1
      h3 == IF PyTruthy(o.role) THEN Put(h2, "X-User-Role", o.role) ELSE h2
      h4 == IF PyTruthy(o.provider) THEN Put(h3, "X-Vura-Provider", o.provider) ELSE h3
  IN  h4

\* self._build_headers(), as _chat and _stream call it first
BuildHeaders ==
  /\ bst = "constructed"
  /\ headers' = _build_headers(self)
  /\ bst' = "built"
  /\ UNCHANGED << args, environ, self >>
  /\ UNCHANGED notB

NextHeaders ==
  \/ Construct
  \/ BuildHeaders
  \/ ConstructHandler
  \/ create_session

SpecHeaders == InitHeaders /\ [][NextHeaders]_vars

-----------------------------------------------------------------------------
(* VuraChatModel: the requests that invoke, chat and stream build.
   Temperatures are written in tenths (7 is 0.7). *)

Fields == {"model", "temperature", "max_tokens"}

\* The defaults a client is constructed with
DefaultValues ==
  [model : {JStr("gpt-4"), JStr("gpt-3.5-turbo")},
   temperature : {JNum(7), JNum(2)},
   max_tokens : {JNum(4096), JNum(256)}]

\* The values a caller overrides a field with; 0 and None are among them
OverrideValues ==
  [model |-> {JStr("gpt-4o")},
   temperature |-> {JNum(0), JNull},
   max_tokens |-> {JNum(16)}]

\* **kwargs of a call: any of the fields, each with one of its values
Kwargs ==
  UNION { { f \in [D -> UNION { OverrideValues[n] : n \in D }] :
              \A n \in D : f[n] \in OverrideValues[n] } : D \in SUBSET Fields }

\* The Session Context of the client of this part
SessionContext ==
  [api_key |-> JStr("vura-key"), provider_api_key |-> JStr(""),
   provider |-> JNull, session_id |-> JStr("langchain"), role |-> JStr("admin")]

Message(role, content) == [role |-> role, content |-> content]

\* The messages chat() is given
ChatMessages == << Message("system", "be brief"), Message("user", "hi") >>

InitCalls ==
  /\ args \in DefaultValues
  /\ environ = << >>
  /\ \E o \in DefaultValues :
       /\ o = args
       /\ self = [model |-> o.model, temperature |-> o.temperature,
                  max_tokens |-> o.max_tokens, api_key |-> SessionContext.api_key,
                  provider_api_key |-> SessionContext.provider_api_key,
                  provider |-> SessionContext.provider,
                  session_id |-> SessionContext.session_id,
                  role |-> SessionContext.role]
  /\ headers = << >>
  /\ bst = "client"
  /\ call = [kind |-> "none"]
  /\ payload = << >>
  /\ ncalls = 0
  /\ threads = << >>
  \* _chat and _stream have not posted
  /\ mode = "none"
  /\ st = "idle"
  /\ status = 0
  /\ posts = 0
  /\ cexc = "none"
  /\ body = JNull
  /\ text = NoText
  /\ lines = << >>
  /\ pos = 0
  /\ out = << >>
  /\ conn = "none"
  \* VuraCallbackHandler is not in use
  /\ block_on_pii = FALSE
  /\ prompts = << >>
  /\ _findings = << >>
  /\ phase = "idle"
  /\ i = 1
  /\ j = 1
  /\ response = [has_generations |-> FALSE, generations |-> << >>]
  /\ raised = "none"
  /\ log = << >>
  /\ lastOutcome = [net |-> "none"]
  /\ lastResult = JNull
  /\ preFound = FALSE
  /\ allFailed = TRUE
  /\ llmResult = [has_generations |-> FALSE, generations |-> << >>]
  /\ got = << >>
  /\ scanned = << >>
  /\ found_pre = << >>
  \* privacyguard is not in use
  /\ _ACTIVE = FALSE
  /\ _CONFIG = << >>
  /\ os_environ = [OPENAI_BASE_URL |-> Unset, OPENAI_API_KEY |-> Unset]
  /\ lastCall = [op |-> "none"]

\* A variant of the merge that takes the default for a falsy override
kwargs_get_or(kwargs, name, default) ==
  IF name \in DOMAIN kwargs /\ PyTruthy(kwargs[name]) THEN kwargs[name] ELSE default

\* kwargs.get(name, default)
kwargs_get(kwargs, name, default) ==
  IF name \in DOMAIN kwargs THEN kwargs[name] ELSE default

\* _chat, lines 137-142: the payload
_chat_payload(o, messages, kwargs) ==
  [model |-> kwargs_get(kwargs, "model", o.model),
   messages |-> messages,
   temperature |-> kwargs_get(kwargs, "temperature", o.temperature),
   max_tokens |-> kwargs_get(kwargs, "max_tokens", o.max_tokens)]

\* _stream, lines 160-166: the payload
_stream_payload(o, messages, kwargs) ==
  [model |-> kwargs_get(kwargs, "model", o.model),
   messages |-> messages,
   temperature |-> kwargs_get(kwargs, "temperature", o.temperature),
   max_tokens |-> kwargs_get(kwargs, "max_tokens", o.max_tokens),
   stream |-> TRUE]

\* The record of a call: its kind, its overrides and those of the call before
CallOf(kind, kwargs) ==
  [kind |-> kind, kwargs |-> kwargs,
   prev |-> IF call.kind = "none" THEN << >> ELSE call.kwargs]

\* invoke(input_text, **kwargs): one user message, then _chat up to its POST.
\* Nothing is assigned to an attribute of self.
invoke ==
  /\ bst = "client"
  /\ ncalls < MaxCalls
  /\ \E kwargs \in Kwargs :
       /\ call' = CallOf("invoke", kwargs)
       /\ payload' = _chat_payload(self, << Message("user", "hi") >>, kwargs)
  /\ headers' = _build_headers(self)
  /\ ncalls' = ncalls + 1
  /\ UNCHANGED << args, environ, self, bst >>
  /\ UNCHANGED notP

\* chat(messages, **kwargs): _chat up to its POST
chat ==
  /\ bst = "client"
  /\ ncalls < MaxCalls
  /\ \E kwargs \in Kwargs :
       /\ call' = CallOf("chat", kwargs)
       /\ payload' = _chat_payload(self, ChatMessages, kwargs)
  /\ headers' = _build_headers(self)
  /\ ncalls' = ncalls + 1
  /\ UNCHANGED << args, environ, self, bst >>
  /\ UNCHANGED notP

\* stream(input_text, **kwargs): one user message, then _stream up to its POST
stream ==
  /\ bst = "client"
  /\ ncalls < MaxCalls
  /\ \E kwargs \in Kwargs :
       /\ call' = CallOf("stream", kwargs)
       /\ payload' = _stream_payload(self, << Message("user", "hi") >>, kwargs)
  /\ headers' = Put(_build_headers(self), "Accept", JStr("text/event-stream"))
  /\ ncalls' = ncalls + 1
  /\ UNCHANGED << args, environ, self, bst >>
  /\ UNCHANGED notP

NextCalls ==
  \/ invoke
  \/ chat
  \/ stream

SpecCalls == InitCalls /\ [][NextCalls]_vars

-----------------------------------------------------------------------------
(* Claims about VuraCallbackHandler *)

Occurs(ev) == \E n \in 1..Len(log) : log[n] = ev

\* C1: with block_on_pii set, once a pre-call scan has returned a result with
\* found = true, on_llm_start has raised PIIDetectedError (and no other
\* exception) and the wrapped call is not issued.
C1_RefusesOnFound ==
  (block_on_pii /\ preFound) =>
     /\ raised = "PIIDetectedError"
     /\ phase = "BLOCKED"
     /\ ~Occurs("call_issued")

\* C2: a scan that meets a timeout, a connection error or a non-200 status
\* returns None and raises nothing; a run whose scans all fail is never
\* refused or failed, goes on until DONE (unless the wrapped call itself
\* fails) and hands back the wrapped call's result, whatever block_on_pii is.
C2_ScanNeverFailsCaller ==
  /\ (lastOutcome # NoOutcome /\ ScanFailed(lastOutcome)) => lastResult = JNull
  /\ allFailed =>
       /\ raised = "none"
       /\ phase \in Running \cup {"DONE", "LLM_ERROR"}
       /\ phase \in Running => ENABLED NextHandler
       /\ phase = "DONE" => response = llmResult

C2_Witness ==
  /\ block_on_pii
  /\ allFailed
  /\ phase = "DONE"
  /\ lastOutcome = [net |-> "timeout"]
  /\ log = << "scan_pre", "scan_pre", "call_issued", "call_returned", "scan_post" >>

\* C3: every pre-call scan precedes the issue of the wrapped call, every
\* post-call scan follows its return, the call is issued at most once, and a
\* run that on_llm_start left by an exception has no call and no post-call scan.
C3_PhasesInOrder ==
  /\ \A a, b \in 1..Len(log) :
       /\ (log[a] = "scan_pre" /\ log[b] = "call_issued") => a < b
       /\ (log[a] = "call_issued" /\ log[b] \in {"call_returned", "call_failed"}) => a < b
       /\ (log[a] = "call_returned" /\ log[b] = "scan_post") => a < b
       /\ (log[a] = "call_issued" /\ log[b] = "call_issued") => a = b
  /\ Occurs("scan_post") => Occurs("call_returned")
  /\ phase = "BLOCKED" =>
       ~Occurs("call_issued") /\ ~Occurs("call_returned") /\ ~Occurs("scan_post")

C3_Witness ==
  /\ phase = "DONE"
  /\ log = << "scan_pre", "scan_pre", "call_issued", "call_returned",
              "scan_post", "scan_post" >>

\* C8: the response on_llm_end was given is, at every moment, the result the
\* wrapped call returned: no scan outcome changes it or a generation's text.
C8_ResultUnchanged == response = llmResult

C8_Witness ==
  /\ phase = "DONE"
  /\ log[Len(log)] = "scan_post"
  /\ HasFoundTrue(lastResult)
  /\ _findings # << >>
  /\ response = Gens(<< <<"t1", "t2">> >>)

-----------------------------------------------------------------------------
(* Claims about VuraChatModel._stream and VuraChatModel._chat *)

IsSentinelLine(l) == l.pre = "data: " /\ l.payload = PDone
IsJsonFrame(l) == l.pre = "data: " /\ l.payload.k = "json"

\* choices[0].delta.content exists in v
HasDeltaContent(v) ==
  /\ v.k = "obj"
  /\ "choices" \in DOMAIN v.fields
  /\ v.fields["choices"].k = "list"
  /\ v.fields["choices"].items # << >>
  /\ LET c == v.fields["choices"].items[1]
     IN  /\ c.k = "obj"
         /\ "delta" \in DOMAIN c.fields
         /\ c.fields["delta"].k = "obj"
         /\ "content" \in DOMAIN c.fields["delta"].fields

DeltaContent(v) == v.fields["choices"].items[1].fields["delta"].fields["content"]

\* The delta.content values of the frames of ls that carry one, in frame order
RECURSIVE Contents(_)
Contents(ls) ==
  IF ls = << >> THEN << >>
  ELSE LET l == Head(ls)
       IN  (IF IsJsonFrame(l) /\ HasDeltaContent(l.payload.v)
            THEN << DeltaContent(l.payload.v) >> ELSE << >>) \o Contents(Tail(ls))

\* ls is `data: <json>` frames up to a first `data: [DONE]` at position d
FramesThenDone(ls, d) ==
  /\ d \in 1..Len(ls)
  /\ IsSentinelLine(ls[d])
  /\ \A n \in 1..(d - 1) : IsJsonFrame(ls[n])

Streaming == mode = "stream" /\ st \in {"streaming", "done", "exhausted", "raised"} /\ ~raise_for_status(status)

\* C4: on a body of `data: <json>` frames followed by `data: [DONE]`, _stream
\* raises nothing, has yielded exactly the delta.content values of the frames
\* read so far that carry one, in order, reads up to the first [DONE] and no
\* further, and ends there.
C4_YieldsContentsUntilDone ==
  \A d \in 1..Len(lines) :
    (Streaming /\ status # 0 /\ FramesThenDone(lines, d)) =>
       /\ cexc = "none"
       /\ pos <= d
       /\ out = Contents(SubSeq(lines, 1, pos))
       /\ st # "exhausted"
       /\ st = "done" <=> pos = d

\* ---- the whole decoding of a body, as the loop of _stream runs it
RECURSIVE Decode(_, _)
Decode(ls, acc) ==
  IF ls = << >> THEN [out |-> acc, end |-> "exhausted"]
  ELSE LET d == _stream_line(Head(ls))
       IN  CASE d.act = "return" -> [out |-> acc, end |-> "done"]
             [] d.act = "raise" -> [out |-> acc, end |-> d.exc]
             [] d.act = "yield" -> Decode(Tail(ls), Append(acc, d.v))
             [] OTHER -> Decode(Tail(ls), acc)

RemoveAt(ls, k) == SubSeq(ls, 1, k - 1) \o SubSeq(ls, k + 1, Len(ls))

\* A frame of the chat-completion shape: an object whose choices, if any, are
\* objects whose delta, if any, is an object
ValidFrame(l) ==
  /\ IsJsonFrame(l)
  /\ LET v == l.payload.v
     IN  /\ v.k = "obj"
         /\ "choices" \in DOMAIN v.fields =>
              /\ v.fields["choices"].k = "list"
              /\ \A n \in 1..Len(v.fields["choices"].items) :
                   LET c == v.fields["choices"].items[n]
                   IN  /\ c.k = "obj"
                       /\ "delta" \in DOMAIN c.fields => c.fields["delta"].k = "obj"

\* A line that is not valid JSON, with or without the prefix
NotJsonLine(l) == l.payload.k # "json"

\* ls is a stream of valid frames (and its closing sentinel, if any) with the
\* line at k inserted between two of the frames
InsertedBetweenFrames(ls, k) ==
  /\ 1 < k /\ k < Len(ls)
  /\ ValidFrame(ls[k - 1]) /\ ValidFrame(ls[k + 1])
  /\ \A n \in 1..Len(ls) :
       n # k => (ValidFrame(ls[n]) \/ (n = Len(ls) /\ IsSentinelLine(ls[n])))

Finished == mode = "stream" /\ st \in {"done", "exhausted", "raised"} /\ lines # << >>

\* C5 as stated: a line that is not valid JSON, inserted between valid frames,
\* leaves the decoded sequence what it is without the line, and nothing raises.
C5_AnyNonJsonLineIgnored ==
  \A k \in 1..Len(lines) :
    (Finished /\ InsertedBetweenFrames(lines, k) /\ NotJsonLine(lines[k])) =>
       /\ cexc = "none"
       /\ out = Decode(RemoveAt(lines, k), << >>).out

\* C5, amended: a line that is not valid JSON and is not the sentinel
\* `data: [DONE]`, inserted between valid frames, leaves the decoded sequence
\* what it is without the line, and nothing raises.
C5_NoiseLineIgnored ==
  \A k \in 1..Len(lines) :
    (Finished /\ InsertedBetweenFrames(lines, k) /\ NotJsonLine(lines[k])
       /\ ~IsSentinelLine(lines[k])) =>
       /\ cexc = "none"
       /\ out = Decode(RemoveAt(lines, k), << >>).out
       /\ st = "raised" <=> Decode(RemoveAt(lines, k), << >>).end \notin {"done", "exhausted"}

C5_Witness ==
  /\ st = "done"
  /\ lines = << FrameA, JunkFrame, FrameB, DoneLine >>
  /\ out = << JStr("a"), JStr("b") >>

\* choices[0].message.content exists in v
HasMessageContent(v) ==
  /\ v.k = "obj"
  /\ "choices" \in DOMAIN v.fields
  /\ v.fields["choices"].k = "list"
  /\ v.fields["choices"].items # << >>
  /\ LET c == v.fields["choices"].items[1]
     IN  /\ c.k = "obj"
         /\ "message" \in DOMAIN c.fields
         /\ c.fields["message"].k = "obj"
         /\ "content" \in DOMAIN c.fields["message"].fields

MessageContent(v) == v.fields["choices"].items[1].fields["message"].fields["content"]

Is2xx(s) == 200 <= s /\ s < 300

\* C6: on a 2xx answer whose body parses as JSON, _chat raises nothing and
\* returns choices[0].message.content when that path exists and "" otherwise.
C6_ChatNeverRaisesOnJson ==
  (mode = "chat" /\ st \in {"returned", "raised"} /\ Is2xx(status) /\ body # NotJson) =>
     /\ st = "returned"
     /\ cexc = "none"
     /\ text = IF HasMessageContent(body) THEN MessageContent(body) ELSE JStr("")

-----------------------------------------------------------------------------
(* Claims about the Activation State and the Header Builder *)

\* t is u with its trailing slashes removed
IsRStripped(u, t) ==
  \E n \in 0..Len(u) :
    /\ t = SubSeq(u, 1, n)
    /\ \A m \in (n + 1)..Len(u) : u[m] = "/"
    /\ n = 0 \/ u[n] # "/"

\* C7: the Activation State is the one the last call alone sets.  After
\* activate(proxy_url=u, ...): is_active() is true, the config holds that
\* call's values and OPENAI_BASE_URL is u without its trailing slashes, then
\* /v1.  After deactivate(): is_active() is false and OPENAI_BASE_URL is unset.
C7_LastCallWins ==
  /\ lastCall.op = "activate" =>
       /\ is_active
       /\ IsRStripped(lastCall.proxy_url, _CONFIG.proxy_url.s)
       /\ _CONFIG.role = lastCall.role
       /\ _CONFIG.api_key =
            IF lastCall.api_key \notin {JNull, JStr("")} THEN lastCall.api_key
            ELSE IF os_environ["OPENAI_API_KEY"] = Unset THEN JStr("")
            ELSE os_environ["OPENAI_API_KEY"]
       /\ IF lastCall.session_id \notin {JNull, JStr("")}
          THEN _CONFIG.session_id = lastCall.session_id
          ELSE _CONFIG.session_id \in Uuids
       /\ os_environ["OPENAI_BASE_URL"] # Unset
       /\ \E t \in ProxyUrls :
            /\ IsRStripped(lastCall.proxy_url, t)
            /\ os_environ["OPENAI_BASE_URL"].s = t \o << "/", "v", "1" >>
  /\ lastCall.op = "deactivate" =>
       /\ ~is_active
       /\ os_environ["OPENAI_BASE_URL"] = Unset

\* activate("h//") made right after another activate
C7_Witness ==
  /\ lastCall.op = "activate"
  /\ lastCall.prev = "activate"
  /\ lastCall.proxy_url = << "h", "/", "/" >>
  /\ os_environ["OPENAI_BASE_URL"] = Chars(<< "h", "/", "v", "1" >>)
  /\ is_active
  /\ _CONFIG.proxy_url = Chars(<< "h" >>)

\* C9: the headers always hold Content-Type: application/json; Authorization
\* iff a key resolved, the proxy api_key when it is non-empty and the provider
\* key only otherwise; X-Session-ID iff the session id is non-empty;
\* X-User-Role iff the role is non-empty; X-Vura-Provider iff a provider hint
\* is set (neither None nor empty); and nothing else.
C9_Headers ==
  bst = "built" =>
    LET has(n) == n \in DOMAIN headers
        nonempty(v) == v \notin {JNull, JStr("")}
    IN  /\ has("Content-Type")
        /\ headers["Content-Type"] = JStr("application/json")
        /\ has("Authorization") <=> (nonempty(self.api_key) \/ nonempty(self.provider_api_key))
        /\ nonempty(self.api_key) =>
             headers["Authorization"] = JStr(<< "Bearer ", self.api_key.s >>)
        /\ (~nonempty(self.api_key) /\ nonempty(self.provider_api_key)) =>
             headers["Authorization"] = JStr(<< "Bearer ", self.provider_api_key.s >>)
        /\ has("X-Session-ID") <=> nonempty(self.session_id)
        /\ has("X-Session-ID") => headers["X-Session-ID"] = self.session_id
        /\ has("X-User-Role") <=> nonempty(self.role)
        /\ has("X-User-Role") => headers["X-User-Role"] = self.role
        /\ has("X-Vura-Provider") <=> nonempty(self.provider)
        /\ has("X-Vura-Provider") => headers["X-Vura-Provider"] = self.provider
        /\ DOMAIN headers \subseteq {"Content-Type", "Authorization", "X-Session-ID",
                                     "X-User-Role", "X-Vura-Provider"}

\* both keys resolved, the proxy key from the argument, the provider key from
\* the environment; no role, no provider hint
C9_Witness ==
  /\ bst = "built"
  /\ args.api_key = JStr("vura-key")
  /\ args.provider_api_key = JNull
  /\ self.provider_api_key = JStr("sk-env")
  /\ headers["Authorization"] = JStr(<< "Bearer ", "vura-key" >>)
  /\ DOMAIN headers = {"Content-Type", "Authorization", "X-Session-ID"}

-----------------------------------------------------------------------------
(* Claims about the connection of a stream and the shape of its frames *)

\* _stream has ended: by [DONE], by the end of the body, by an exception, or
\* by the consumer abandoning it
Exited == mode = "stream" /\ st \in {"done", "exhausted", "raised", "abandoned"}

\* C11: whenever _stream has ended after it acquired a connection, whether by
\* [DONE], by exhausting the body, by being abandoned or by an exception, that
\* connection has been released.
C11_ConnectionReleased == (Exited /\ posts = 1 /\ status # 0) => conn = "released"

\* C12: on a 2xx streaming answer _stream raises nothing, whatever the lines
\* are: a frame whose JSON has an unexpected shape is skipped like any other
\* and the fragments of the frames up to the end or [DONE] are all yielded.
C12_NoFrameFailsDecode ==
  (mode = "stream" /\ Is2xx(status)) =>
     /\ st # "raised"
     /\ cexc = "none"
     /\ st \in {"done", "exhausted"} =>
          out = Contents(SubSeq(lines, 1, pos))

-----------------------------------------------------------------------------
(* Claims about the findings collector and the pre-call phase *)

IsPrefix(a, b) == Len(a) <= Len(b) /\ SubSeq(b, 1, Len(a)) = a

\* The step is a scan of on_llm_start or on_llm_end
ScanStep ==
  /\ Len(log') = Len(log) + 1
  /\ log'[Len(log')] \in {"scan_pre", "scan_post"}

\* C13 as stated: over every operation of the handler, clear_findings
\* included, the findings before the operation are a prefix of those after it.
C13_AppendOnly == [][IsPrefix(_findings, _findings')]_vars

\* C13, amended: clear_findings empties the collector; every other operation
\* leaves the findings before it a prefix of those after it, and a scan appends
\* exactly the entities of its result, in their order, duplicates kept.
C13_AppendOnlyUntilCleared ==
  [][ \/ clear_findings
      \/ /\ IsPrefix(_findings, _findings')
         /\ ScanStep => _findings' = _findings \o ScanEntities(lastResult')
         /\ ~ScanStep => _findings' = _findings ]_vars

\* a finding before the call, clear_findings(), then a repeated entity after it
C13_Witness ==
  /\ phase = "DONE"
  /\ found_pre = << JStr("e1") >>
  /\ _findings = << JStr("e2"), JStr("e2") >>
  /\ got = << JStr("e1") >>

-----------------------------------------------------------------------------
(* Claims about the session id *)

NonEmptyStr(v) == v.k = "str" /\ v.s # ""

\* C14: the session id a context resolves to is a non-empty string, however
\* the context is made: by VuraChatModel(...), by VuraCallbackHandler(...), by
\* create_session() or by activate().
C14_SessionIdNonEmpty ==
  /\ bst \in {"constructed", "built", "handler"} => NonEmptyStr(self.session_id)
  /\ bst = "session" => NonEmptyStr(headers["X-Session-ID"])
  /\ lastCall.op = "activate" => NonEmptyStr(_CONFIG.session_id)

-----------------------------------------------------------------------------
(* Claims about deactivate and about concurrent calls *)

\* deactivate() has just returned and the call before it was an activate()
ActivateThenDeactivate == lastCall.op = "deactivate" /\ lastCall.prev = "activate"

\* C15 as stated: after activate(...) then deactivate(), OPENAI_BASE_URL, the
\* active flag and the config (here: the endpoint it routes to, or its
\* absence) are what they were before that activate().
C15_DeactivateRestores ==
  ActivateThenDeactivate =>
     /\ os_environ["OPENAI_BASE_URL"] = lastCall.before.base_url
     /\ _ACTIVE = lastCall.before.active
     /\ Endpoint(_CONFIG) = lastCall.before.endpoint

\* C15, amended: after activate(...) then deactivate(), OPENAI_BASE_URL is
\* unset whatever it was before, is_active() is false, and the config is
\* still the one that activate() built.
C15_DeactivateRemoves ==
  /\ lastCall.op = "deactivate" =>
       /\ os_environ["OPENAI_BASE_URL"] = Unset
       /\ ~is_active
       /\ _CONFIG = lastCall.found
  /\ ActivateThenDeactivate =>
       /\ _CONFIG # << >>
       /\ _CONFIG.proxy_url.s \in { rstrip(u) : u \in ProxyUrls }

\* OPENAI_BASE_URL was set before activate(), and deactivate() did not bring
\* that value back
C15_Witness ==
  /\ ActivateThenDeactivate
  /\ lastCall.before.base_url = Chars(<< "h" >>)
  /\ lastCall.before.endpoint = << >>
  /\ os_environ["OPENAI_BASE_URL"] = Unset
  /\ _CONFIG # << >>

\* Every racing call has returned
AllReturned == threads # << >> /\ \A t \in Threads : threads[t].pc = Returned

Activates == { t \in Threads : threads[t].call.op = "activate" }
Deactivates == { t \in Threads : threads[t].call.op = "deactivate" }

\* The state is the one the call of thread t leaves when it runs alone, last
LeftBy(t) ==
  IF threads[t].call.op = "activate"
  THEN /\ _ACTIVE
       /\ _CONFIG = ConfigOf(threads[t].call, os_environ)
       /\ os_environ["OPENAI_BASE_URL"] = Chars(rstrip(threads[t].call.proxy_url) \o V1)
  ELSE /\ ~_ACTIVE
       /\ os_environ["OPENAI_BASE_URL"] = Unset

\* C16 as stated: once all the concurrent calls have returned, the state is
\* the one that one of them, run last on its own, leaves; and is_active() is
\* true iff OPENAI_BASE_URL is the config's proxy_url followed by /v1.
C16_LastCallWinsWhole ==
  AllReturned =>
     /\ \E t \in Threads : LeftBy(t)
     /\ is_active <=> /\ _CONFIG # << >>
                      /\ os_environ["OPENAI_BASE_URL"] = Chars(_CONFIG.proxy_url.s \o V1)

\* C16, amended: once all the concurrent calls have returned, each part of the
\* state is what some call wrote, but the parts need not come from one call.
\* The config is the whole config of one of the activate() calls (none if
\* there was no such call); OPENAI_BASE_URL is unset or the endpoint of one of
\* the activate() calls followed by /v1; the flag is true only if a call was
\* activate() and false only if a call was deactivate().
C16_LastWriteWinsPerPart ==
  AllReturned =>
     /\ IF Activates = {} THEN _CONFIG = << >>
        ELSE \E t \in Activates : _CONFIG = ConfigOf(threads[t].call, os_environ)
     /\ \/ os_environ["OPENAI_BASE_URL"] = Unset /\ Deactivates # {}
        \/ \E t \in Activates :
             os_environ["OPENAI_BASE_URL"] = Chars(rstrip(threads[t].call.proxy_url) \o V1)
     /\ is_active => Activates # {}
     /\ ~is_active => Deactivates # {}
     /\ Deactivates = {} => os_environ["OPENAI_BASE_URL"] # Unset

\* an activate() racing a deactivate(): the flag is off and the endpoint is set
C16_Witness ==
  /\ AllReturned
  /\ Cardinality(Activates) = 1
  /\ ~is_active
  /\ os_environ["OPENAI_BASE_URL"] = Chars(<< "h", "/", "v", "1" >>)

-----------------------------------------------------------------------------
(* Claims about the refusal and about the scans of the pre-call phase *)

\* C17: without block_on_pii, on_llm_start raises no PIIDetectedError whatever
\* the scans return, and it does not end without the wrapped call being issued;
\* on_llm_end raises no PIIDetectedError, with or without block_on_pii.
C17_RefusalOnlyWhenConfigured ==
  /\ ~block_on_pii =>
       /\ raised # "PIIDetectedError"
       /\ phase # "BLOCKED"
       /\ phase = "FAILED" => Occurs("call_issued")
  /\ raised = "PIIDetectedError" => ~Occurs("call_returned")


\* The step ends on_llm_start: it returns, or an exception leaves it
StartEnds == phase = "BEFORE_CALL" /\ phase' # "BEFORE_CALL"

\* C18 as stated: when on_llm_start ends, by returning or by refusing, every
\* prompt has been scanned once, in order, and the entities of every scan with
\* found = true are in the findings.
C18_EveryPromptScanned ==
  [][StartEnds => (scanned' = prompts /\ _findings' = found_pre')]_vars

\* C18, amended: on_llm_start scans the prompts in order, each at most once,
\* and stops at the first prompt at which it raises.  When it returns, every
\* prompt has been scanned exactly once; when it refuses, the prompt whose scan
\* reported found = true is the last one scanned and no earlier scan reported
\* any.  Either way the entities of every scan made are in the findings.
C18_PromptsScannedUntilRaise ==
  /\ [](IsPrefix(scanned, prompts) /\ (phase = "BEFORE_CALL" => _findings = found_pre))
  /\ [][StartEnds =>
          /\ _findings' = found_pre'
          /\ raised' = "none" => scanned' = prompts
          /\ raised' # "none" => scanned' = SubSeq(prompts, 1, Len(scanned) + 1)
          /\ phase' = "BLOCKED" =>
               block_on_pii /\ ~preFound /\ HasFoundTrue(lastResult')]_vars

\* a refusal at the first of two prompts: the second one is never scanned
C18_Witness ==
  /\ phase = "BLOCKED"
  /\ Len(prompts) = 2
  /\ scanned = << prompts[1] >>
  /\ _findings = << JStr("e1") >>
  /\ found_pre = _findings

-----------------------------------------------------------------------------
(* Claims about the audit operations *)

\* C19: whichever audit operation it is, an answer that is not 2xx makes it
\* raise and return nothing, and what it returns for a 2xx answer is the body.
C19_AuditRaisesOnNon2xx ==
  (mode \in AuditModes /\ status # 0) =>
     IF Is2xx(status)
     THEN st = "returned" => text = body
     ELSE st = "raised" /\ text = NoText

-----------------------------------------------------------------------------
(* Claims about the per-call overrides *)

\* C20: in the request of every invoke, chat and stream call each of model,
\* temperature and max_tokens is the caller's override when one is supplied
\* and the client's default otherwise, field by field; and whatever calls were
\* made with whatever overrides, the client's defaults and its Session Context
\* are those it was constructed with.
C20_OverridesMergedNotPersisted ==
  /\ call.kind # "none" =>
       /\ \A n \in Fields :
            payload[n] = IF n \in DOMAIN call.kwargs THEN call.kwargs[n] ELSE args[n]
       /\ "stream" \in DOMAIN payload <=> call.kind = "stream"
       /\ headers["X-Session-ID"] = SessionContext.session_id
       /\ headers["X-User-Role"] = SessionContext.role
  /\ bst = "client" =>
       /\ \A n \in Fields : self[n] = args[n]
       /\ \A n \in DOMAIN SessionContext : self[n] = SessionContext[n]

\* a call without overrides, made after a call that overrode all three fields
\* (the temperature with 0): it sends the defaults
C20_Witness ==
  /\ ncalls = 2
  /\ call.kind = "stream"
  /\ DOMAIN call.kwargs = {}
  /\ DOMAIN call.prev = Fields
  /\ call.prev["temperature"] = JNum(0)
  /\ payload.temperature = JNum(7)
  /\ payload.model = self.model

=============================================================================
